---- MODULE Spec2Model ----
(***************************************************************************)
(* A model of Vector<T> (src/src/vector.h) on top of RawMemory<T>          *)
(* (src/src/raw_memory.h).                                                 *)
(*                                                                         *)
(* The heap is a finite set of blocks; a block is a sequence of cells and  *)
(* a cell is either uninitialized (<<>>) or holds a live element (<<v>>).  *)
(* A Vector is the pair (data_, size_), data_ being the RawMemory pair     *)
(* (buffer_, capacity_).  Element operations (constructors, assignments)   *)
(* and allocations may throw: every call of a public operation is given a  *)
(* fuse f, and the f-th throwing-capable step of the call throws (f = 0:   *)
(* nothing throws).  Each public operation is one atomic action, computed  *)
(* by an operator that follows the statements of the method, its catch     *)
(* blocks and the destructors of its locals.                               *)
(***************************************************************************)
EXTENDS Integers, Sequences, FiniteSets, TLC

VARIABLES T, heap, vec, fault, stack, raw

vars == <<T, heap, vec, fault, stack, raw>>

(***************************************************************************)
(* Bounds of the model.                                                    *)
(***************************************************************************)
MaxCap == 4
PairMaxCap == 2
NumBlocks == 3

Values == {1, 2}
PairValues == {1}
Blocks == 1..NumBlocks
Ids == {1, 2}
Tmp == 0

(***************************************************************************)
(* Element values.  T() is DefaultValue; an element that was the source of *)
(* a move holds MovedFrom.                                                 *)
(***************************************************************************)
DefaultValue == 0
MovedFrom == 0 - 1

Uninit == <<>>
Live(v) == <<v>>

\* size_ is a size_t: 0 - 1 wraps to the largest value.  The largest integer
\* of the checker stands for 2^64 - 1.
SizeTMax == 2147483647
Decrement(s) == IF s = 0 THEN SizeTMax ELSE s - 1

Null == 0
NullPtr == [b |-> Null, i |-> 0]
Ptr(b, i) == [b |-> b, i |-> i]
At(p, k) == [b |-> p.b, i |-> p.i + k]

MinOf(S) == CHOOSE x \in S : \A y \in S : x <= y
Min2(a, b) == IF a <= b THEN a ELSE b

(***************************************************************************)
(* The machine a call runs on: the heap and the vectors, the fuse, and     *)
(* what the call did (whether it threw and where, the path it took, how    *)
(* many elements it destroyed, the pointer it returns).                    *)
(***************************************************************************)
Fault(m, f) == [m EXCEPT !.fault = @ \cup {f}]

Throw(m, label) == [m EXCEPT !.fuse = 0, !.exc = TRUE, !.threwAt = label]

\* A throwing-capable step: it throws when the fuse is down to 1.
Burn(m, label) ==
    IF m.fuse = 1 THEN Throw(m, label)
    ELSE IF m.fuse > 1 THEN [m EXCEPT !.fuse = @ - 1, !.steps = @ + 1]
    ELSE [m EXCEPT !.steps = @ + 1]

Path(m, p) == [m EXCEPT !.path = Append(@, p)]

\* The effects of a call on the memory, in the order they happen.
Event(m, e) == [m EXCEPT !.log = Append(@, e)]

ValidCell(m, p) ==
    /\ p.b \in Blocks
    /\ m.heap[p.b].alloc
    /\ p.i >= 0
    /\ p.i < Len(m.heap[p.b].cells)

IsLive(m, p) == ValidCell(m, p) /\ m.heap[p.b].cells[p.i + 1] # Uninit

Val(m, p) == IF IsLive(m, p) THEN m.heap[p.b].cells[p.i + 1][1] ELSE MovedFrom

SetCell(m, p, c) == [m EXCEPT !.heap[p.b].cells[p.i + 1] = c]

ReadCheck(m, p) == IF IsLive(m, p) THEN m ELSE Fault(m, "read_uninit")

(***************************************************************************)
(* The(S) is the element of the one-element set S.  The machine a step     *)
(* leaves is bound by The({e : x \in {d}}): e with x bound to d, where d   *)
(* is computed once.                                                       *)
(***************************************************************************)
The(S) == CHOOSE x \in S : TRUE

(***************************************************************************)
(* RawMemory::Allocate / Deallocate.                                       *)
(***************************************************************************)
FreeBlocks(m) == {b \in Blocks : ~m.heap[b].alloc}

Allocate(m, n) ==
    IF n = 0 THEN [m EXCEPT !.reg = Null]
    ELSE The({
        IF m1.exc THEN m1
        ELSE IF FreeBlocks(m1) = {} THEN Throw(m1, "alloc")
        ELSE LET b == MinOf(FreeBlocks(m1)) IN
             Event([m1 EXCEPT !.heap[b] = [alloc |-> TRUE,
                                           cells |-> [i \in 1..n |-> Uninit]],
                              !.reg = b],
                   <<"allocate", b>>)
        : m1 \in {Burn(m, "alloc")}})

Deallocate(m, b) ==
    IF b = Null THEN m
    ELSE IF ~m.heap[b].alloc THEN Fault(m, "double_free")
    ELSE IF \E i \in 1..Len(m.heap[b].cells) : m.heap[b].cells[i] # Uninit
    THEN Event([Fault(m, "leak") EXCEPT !.heap[b] = [alloc |-> FALSE, cells |-> <<>>]],
               <<"release", b>>)
    ELSE Event([m EXCEPT !.heap[b] = [alloc |-> FALSE, cells |-> <<>>]],
               <<"release", b>>)

(***************************************************************************)
(* Element operations.                                                     *)
(***************************************************************************)
PlacementNew(m, p, v, canThrow, label) ==
    The({
        IF m1.exc THEN m1
        ELSE IF ~ValidCell(m1, p) THEN Fault(m1, "wild")
        ELSE IF IsLive(m1, p)
        THEN Event(SetCell(Fault(m1, "leak"), p, Live(v)), <<"construct", p.b, p.i>>)
        ELSE Event(SetCell(m1, p, Live(v)), <<"construct", p.b, p.i>>)
        : m1 \in {IF canThrow THEN Burn(m, label) ELSE m}})

DestroyAt(m, p) ==
    IF ~ValidCell(m, p) THEN Fault(m, "wild")
    ELSE IF ~IsLive(m, p) THEN Fault(m, "double_destroy")
    ELSE Event([SetCell(m, p, Uninit) EXCEPT !.ndestroy = @ + 1],
               <<"destroy", p.b, p.i>>)

RECURSIVE DestroyN(_, _, _)
DestroyN(m, p, n) ==
    IF n <= 0 THEN m ELSE DestroyN(DestroyAt(m, p), At(p, 1), n - 1)

CopyConstruct(m, to, from) ==
    PlacementNew(ReadCheck(m, from), to, Val(m, from), TRUE, "copy")

MoveConstruct(m, to, from) ==
    The({
        IF m1.exc THEN m1 ELSE SetCell(m1, from, Live(MovedFrom))
        : m1 \in {PlacementNew(ReadCheck(m, from), to, Val(m, from),
                               ~T.nothrowMove, "move")}})

CopyAssign(m, to, from) ==
    The({
        IF m1.exc THEN m1
        ELSE IF ~IsLive(m1, to) THEN Fault(m1, "assign_uninit")
        ELSE SetCell(m1, to, Live(Val(m, from)))
        : m1 \in {Burn(ReadCheck(m, from), "assign")}})

MoveAssign(m, to, from) ==
    The({
        IF m1.exc \/ ~IsLive(m1, from) THEN m1 ELSE SetCell(m1, from, Live(MovedFrom))
        : m1 \in {CopyAssign(m, to, from)}})

AssignValue(m, to, v) ==
    The({
        IF m1.exc THEN m1
        ELSE IF ~IsLive(m1, to) THEN Fault(m1, "assign_uninit")
        ELSE SetCell(m1, to, Live(v))
        : m1 \in {Burn(m, "assign")}})

(***************************************************************************)
(* The <memory> and <algorithm> functions the vector calls.  The           *)
(* uninitialized_* functions destroy what they built when a construction   *)
(* throws, and let the exception through.                                  *)
(***************************************************************************)
RECURSIVE UninitValueFrom(_, _, _, _)
UninitValueFrom(m, p, n, k) ==
    IF k >= n THEN m
    ELSE The({
        IF m1.exc THEN DestroyN(m1, p, k) ELSE UninitValueFrom(m1, p, n, k + 1)
        : m1 \in {PlacementNew(m, At(p, k), DefaultValue, TRUE, "default")}})

UninitializedValueConstructN(m, p, n) == UninitValueFrom(m, p, n, 0)

RECURSIVE UninitCopyFrom(_, _, _, _, _)
UninitCopyFrom(m, from, n, to, k) ==
    IF k >= n THEN m
    ELSE The({
        IF m1.exc THEN DestroyN(m1, to, k) ELSE UninitCopyFrom(m1, from, n, to, k + 1)
        : m1 \in {CopyConstruct(m, At(to, k), At(from, k))}})

UninitializedCopyN(m, from, n, to) == UninitCopyFrom(m, from, n, to, 0)

RECURSIVE UninitMoveFrom(_, _, _, _, _)
UninitMoveFrom(m, from, n, to, k) ==
    IF k >= n THEN m
    ELSE The({
        IF m1.exc THEN DestroyN(m1, to, k) ELSE UninitMoveFrom(m1, from, n, to, k + 1)
        : m1 \in {MoveConstruct(m, At(to, k), At(from, k))}})

UninitializedMoveN(m, from, n, to) == UninitMoveFrom(m, from, n, to, 0)

RECURSIVE CopyFrom(_, _, _, _, _)
CopyFrom(m, from, n, to, k) ==
    IF k >= n THEN m
    ELSE The({
        IF m1.exc THEN m1 ELSE CopyFrom(m1, from, n, to, k + 1)
        : m1 \in {CopyAssign(m, At(to, k), At(from, k))}})

CopyNOneShort(m, from, n, to) == CopyFrom(m, from, n - 1, to, 0)

CopyN(m, from, n, to) == CopyFrom(m, from, n, to, 0)

\* std::move(first, first + n, dfirst): move-assigns front to back.
RECURSIVE MoveFrom(_, _, _, _, _)
MoveFrom(m, first, n, dfirst, k) ==
    IF k >= n THEN m
    ELSE The({
        IF m1.exc THEN m1 ELSE MoveFrom(m1, first, n, dfirst, k + 1)
        : m1 \in {MoveAssign(m, At(dfirst, k), At(first, k))}})

MoveRangeShort(m, first, n, dfirst) == MoveFrom(m, first, n - 1, dfirst, 0)

MoveRange(m, first, n, dfirst) == MoveFrom(m, first, n, dfirst, 0)

\* std::move_backward(first, first + n, dlast): move-assigns back to front,
\* the last source element to dlast - 1.
RECURSIVE MoveBackFrom(_, _, _, _, _)
MoveBackFrom(m, first, n, dlast, k) ==
    IF k >= n THEN m
    ELSE The({
        IF m1.exc THEN m1 ELSE MoveBackFrom(m1, first, n, dlast, k + 1)
        : m1 \in {MoveAssign(m, At(dlast, 0 - 1 - k), At(first, n - 1 - k))}})

MoveFrontToBack(m, first, n, dlast) == MoveFrom(m, first, n, At(dlast, 0 - n), 0)

MoveBackward(m, first, n, dlast) == MoveBackFrom(m, first, n, dlast, 0)

(***************************************************************************)
(* RawMemory objects on their own: buffer_ and capacity_.                  *)
(***************************************************************************)
NoRaw == [exists |-> FALSE, buffer |-> Null, capacity |-> 0]

\* RawMemory(size_t capacity)
RawCtor(m, id, capacity) ==
    The({
        IF a.exc THEN a
        ELSE [a EXCEPT !.raw[id] =
                 [exists |-> TRUE, buffer |-> a.reg, capacity |-> capacity]]
        : a \in {Allocate(m, capacity)}})

\* RawMemory(RawMemory&& other)
RawMoveCtor(m, id, other) ==
    [m EXCEPT !.raw[id] = [exists |-> TRUE, buffer |-> m.raw[other].buffer,
                           capacity |-> m.raw[other].capacity],
              !.raw[other].buffer = Null,
              !.raw[other].capacity = 0]

\* RawMemory& operator=(RawMemory&& rhs):
\*     Deallocate(buffer_); std::swap(buffer_, rhs.buffer_);
\*     capacity_ = std::exchange(rhs.capacity_, 0U);
\* The function has no return statement.  A build either returns to the
\* caller, which drops the reference it gets (falls = FALSE), or runs off the
\* end of the function (falls = TRUE).
RawMoveAssignment(m, id, rhs, falls) ==
    The({
        IF falls THEN Fault(m2, "no_return") ELSE m2
        : m2 \in {The({
            [m1 EXCEPT !.raw[rhs].buffer = m1.raw[id].buffer,
                       !.raw[id].buffer = m1.raw[rhs].buffer,
                       !.raw[rhs].capacity = 0,
                       !.raw[id].capacity = m1.raw[rhs].capacity]
            : m1 \in {Deallocate(m, m.raw[id].buffer)}})}})

\* ~RawMemory()
RawDtor(m, id) ==
    [Deallocate(m, m.raw[id].buffer) EXCEPT !.raw[id] = NoRaw]

\* RawMemory::Swap between two RawMemory objects.
RawMemorySwap(m, a, b) ==
    [m EXCEPT !.raw[a].buffer = m.raw[b].buffer,
              !.raw[a].capacity = m.raw[b].capacity,
              !.raw[b].buffer = m.raw[a].buffer,
              !.raw[b].capacity = m.raw[a].capacity]

(***************************************************************************)
(* Vector: the fields and the observers.                                   *)
(***************************************************************************)
NoVector == [exists |-> FALSE, buf |-> Null, cap |-> 0, size |-> 0]
EmptyVector == [exists |-> TRUE, buf |-> Null, cap |-> 0, size |-> 0]

Size(m, id) == m.vec[id].size
Capacity(m, id) == m.vec[id].cap
GetAddress(m, id) == Ptr(m.vec[id].buf, 0)

\* RawMemory::operator+ : data_ + offset, asserting offset <= capacity_.
DataPlus(m, id, off) == Ptr(m.vec[id].buf, off)
AssertOffset(m, id, off) ==
    IF off <= m.vec[id].cap THEN m ELSE Fault(m, "assert")

ReallocateAlwaysMoves(m, from, n, to) == UninitializedMoveN(m, from, n, to)

ReallocateAlwaysCopies(m, from, n, to) == UninitializedCopyN(m, from, n, to)

\* Vector::Reallocate
Reallocate(m, from, n, to) ==
    IF T.nothrowMove \/ ~T.copyable
    THEN UninitializedMoveN(m, from, n, to)
    ELSE UninitializedCopyN(m, from, n, to)

\* RawMemory::Swap on the data_ of two vectors, and Vector::Swap.
RawSwap(m, a, b) ==
    [m EXCEPT !.vec[a].buf = m.vec[b].buf, !.vec[a].cap = m.vec[b].cap,
              !.vec[b].buf = m.vec[a].buf, !.vec[b].cap = m.vec[a].cap]

SwapStorageOnly(m, a, b) == RawSwap(m, a, b)

Swap(m, a, b) ==
    [RawSwap(m, a, b) EXCEPT !.vec[a].size = m.vec[b].size,
                             !.vec[b].size = m.vec[a].size]

\* data_.Swap(new_data) followed by the destructor of the local new_data,
\* which then owns the old block.
AdoptStorage(m, id, nb, ncap) ==
    Deallocate(Event([m EXCEPT !.vec[id].buf = nb, !.vec[id].cap = ncap],
                     <<"adopt", nb>>),
               m.vec[id].buf)

\* ++size_
IncrementSize(m, id) ==
    Event([m EXCEPT !.vec[id].size = @ + 1], <<"size", m.vec[id].size + 1>>)

(***************************************************************************)
(* Vector: construction, assignment, destruction.                          *)
(***************************************************************************)
\* Vector() = default
DefaultCtor(m, id) == [m EXCEPT !.vec[id] = EmptyVector]

\* explicit Vector(size_t size).  When a construction throws, the member
\* data_ is destroyed and no vector exists.
SizedCtor(m, id, n) ==
    The({
        IF a.exc THEN a
        ELSE The({
            IF m1.exc THEN Deallocate(m1, a.reg)
            ELSE [m1 EXCEPT !.vec[id] =
                     [exists |-> TRUE, buf |-> a.reg, cap |-> n, size |-> n]]
            : m1 \in {UninitializedValueConstructN(a, Ptr(a.reg, 0), n)}})
        : a \in {Allocate(m, n)}})

CopyCtorShares(m, id, other) ==
    [m EXCEPT !.vec[id] = [m.vec[other] EXCEPT !.cap = m.vec[other].size]]

\* Vector(const Vector& other)
CopyCtor(m, id, other) ==
    LET n == Size(m, other) IN
    The({
        IF a.exc THEN a
        ELSE The({
            IF m1.exc THEN Deallocate(m1, a.reg)
            ELSE [m1 EXCEPT !.vec[id] =
                     [exists |-> TRUE, buf |-> a.reg, cap |-> n, size |-> n]]
            : m1 \in {UninitializedCopyN(a, GetAddress(a, other), n, Ptr(a.reg, 0))}})
        : a \in {Allocate(m, n)}})

\* Vector(Vector&& other) noexcept
MoveCtor(m, id, other) == Swap(DefaultCtor(m, id), id, other)

\* ~Vector(), then the destructor of the member data_ (~RawMemory).
Destructor(m, id) ==
    [Deallocate(DestroyN(m, GetAddress(m, id), Size(m, id)), m.vec[id].buf)
        EXCEPT !.vec[id] = NoVector]

\* Vector& operator=(const Vector& rhs)
CopyAssignmentSizeFirst(m, id, rhs) ==
    LET s == Size(m, id)
        r == Size(m, rhs)
    IN  IF id = rhs THEN Path(m, "self")
        ELSE IF r > Capacity(m, id)
        THEN The({
            IF c.exc THEN c ELSE Destructor(Swap(c, id, Tmp), Tmp)
            : c \in {CopyCtor(Path(m, "copy_swap"), Tmp, rhs)}})
        ELSE The({
            IF m1.exc THEN m1
            ELSE IF s < r
                 THEN UninitializedCopyN(m1, DataPlus(m1, rhs, s), r - s,
                                         DataPlus(m1, id, s))
                 ELSE DestroyN(m1, DataPlus(m1, id, r), s - r)
            : m1 \in {CopyN([Path(m, "in_place") EXCEPT !.vec[id].size = r],
                            GetAddress(m, rhs), Min2(s, r), GetAddress(m, id))}})

CopyAssignment(m, id, rhs) ==
    LET s == Size(m, id)
        r == Size(m, rhs)
    IN  IF id = rhs THEN Path(m, "self")
        ELSE IF r > Capacity(m, id)
        THEN The({
            IF c.exc THEN c ELSE Destructor(Swap(c, id, Tmp), Tmp)
            : c \in {CopyCtor(Path(m, "copy_swap"), Tmp, rhs)}})
        ELSE The({
            IF m1.exc THEN m1
            ELSE The({
                IF m2.exc THEN m2 ELSE [m2 EXCEPT !.vec[id].size = r]
                : m2 \in {IF s < r
                          THEN UninitializedCopyN(m1, DataPlus(m1, rhs, s), r - s,
                                                  DataPlus(m1, id, s))
                          ELSE DestroyN(m1, DataPlus(m1, id, r), s - r)}})
            : m1 \in {CopyN(Path(m, "in_place"), GetAddress(m, rhs), Min2(s, r),
                            GetAddress(m, id))}})

\* Vector& operator=(Vector&& rhs) noexcept
MoveAssignment(m, id, rhs) ==
    IF id # rhs THEN Swap(Path(m, "swap"), id, rhs) ELSE Path(m, "self")

(***************************************************************************)
(* Vector: Reserve, Resize, PushBack, PopBack, EmplaceBack.                *)
(***************************************************************************)
ReserveDoubles(m, id, newCapacity) ==
    IF newCapacity <= Capacity(m, id) THEN Path(m, "noop")
    ELSE The({
        IF a.exc THEN a
        ELSE The({
            IF m1.exc THEN Deallocate(m1, a.reg)
            ELSE AdoptStorage(DestroyN(m1, GetAddress(m1, id), Size(m1, id)),
                              id, a.reg, newCapacity * 2)
            : m1 \in {Reallocate(a, GetAddress(a, id), Size(a, id), Ptr(a.reg, 0))}})
        : a \in {Allocate(Path(m, "realloc"), newCapacity * 2)}})

Reserve(m, id, newCapacity) ==
    IF newCapacity <= Capacity(m, id) THEN Path(m, "noop")
    ELSE The({
        IF a.exc THEN a
        ELSE The({
            IF m1.exc THEN Deallocate(m1, a.reg)
            ELSE AdoptStorage(DestroyN(m1, GetAddress(m1, id), Size(m1, id)),
                              id, a.reg, newCapacity)
            : m1 \in {Reallocate(a, GetAddress(a, id), Size(a, id), Ptr(a.reg, 0))}})
        : a \in {Allocate(Path(m, "realloc"), newCapacity)}})

ResizeSetsSizeFirst(m, id, newSize) ==
    LET s == Size(m, id) IN
    IF newSize <= s
    THEN [DestroyN(Path(m, "shrink"), DataPlus(m, id, newSize), s - newSize)
             EXCEPT !.vec[id].size = newSize]
    ELSE The({
        IF m1.exc THEN m1
        ELSE UninitializedValueConstructN([m1 EXCEPT !.vec[id].size = newSize],
                                          DataPlus(m1, id, s), newSize - s)
        : m1 \in {Reserve(Path(m, "extend"), id, newSize)}})

Resize(m, id, newSize) ==
    LET s == Size(m, id) IN
    IF newSize <= s
    THEN [DestroyN(Path(m, "shrink"), DataPlus(m, id, newSize), s - newSize)
             EXCEPT !.vec[id].size = newSize]
    ELSE The({
        IF m1.exc THEN m1
        ELSE The({
            IF m2.exc THEN m2 ELSE [m2 EXCEPT !.vec[id].size = newSize]
            : m2 \in {UninitializedValueConstructN(m1, DataPlus(m1, id, s),
                                                   newSize - s)}})
        : m1 \in {Reserve(Path(m, "extend"), id, newSize)}})

PopBackKeepsSize(m, id) ==
    DestroyAt(AssertOffset(m, id, Size(m, id)), At(DataPlus(m, id, Size(m, id)), 0 - 1))

\* std::destroy_at(data_ + size_ - 1U); --size_;   (size_ is a size_t)
PopBack(m, id) ==
    LET s == Size(m, id) IN
    [DestroyAt(AssertOffset(m, id, s), At(DataPlus(m, id, s), 0 - 1))
        EXCEPT !.vec[id].size = Decrement(s)]

\* const size_t new_capacity = (size_ == 0U) ? 1U : (size_ * 2U);
NewCapacityPlusOne(s) == s + 1

NewCapacity(s) == IF s = 0 THEN 1 ELSE s * 2

EmplaceBackRelocatesFirst(m, id, v) ==
    LET s == Size(m, id) IN
    IF s = Capacity(m, id)
    THEN The({
        IF a.exc THEN a
        ELSE The({
            IF m1.exc THEN Deallocate(m1, a.reg)
            ELSE The({
                IF m2.exc
                THEN Deallocate(DestroyN(m2, Ptr(a.reg, 0), s), a.reg)
                ELSE IncrementSize(AdoptStorage(DestroyN(m2, GetAddress(m2, id), s),
                                                id, a.reg, NewCapacity(s)),
                                   id)
                : m2 \in {PlacementNew(m1, Ptr(a.reg, s), v, TRUE, "ctor")}})
            : m1 \in {Reallocate(a, GetAddress(a, id), s, Ptr(a.reg, 0))}})
        : a \in {Allocate(Path(m, "grow"), NewCapacity(s))}})
    ELSE The({
        IF m1.exc THEN m1 ELSE IncrementSize(m1, id)
        : m1 \in {PlacementNew(Path(m, "spare"), DataPlus(m, id, s), v, TRUE, "ctor")}})

EmplaceBack(m, id, v) ==
    LET s == Size(m, id) IN
    IF s = Capacity(m, id)
    THEN The({
        IF a.exc THEN a
        ELSE The({
            IF m1.exc THEN Deallocate(m1, a.reg)
            ELSE The({
                IF m2.exc
                THEN Deallocate(DestroyAt(m2, Ptr(a.reg, s)), a.reg)
                ELSE IncrementSize(AdoptStorage(DestroyN(m2, GetAddress(m2, id), s),
                                                id, a.reg, NewCapacity(s)),
                                   id)
                : m2 \in {Reallocate(m1, GetAddress(m1, id), s, Ptr(a.reg, 0))}})
            : m1 \in {PlacementNew(a, Ptr(a.reg, s), v, TRUE, "ctor")}})
        : a \in {Allocate(Path(m, "grow"), NewCapacity(s))}})
    ELSE The({
        IF m1.exc THEN m1 ELSE IncrementSize(m1, id)
        : m1 \in {PlacementNew(Path(m, "spare"), DataPlus(m, id, s), v, TRUE, "ctor")}})

PushBack(m, id, v) == EmplaceBack(m, id, v)

(***************************************************************************)
(* Vector: Emplace / Insert / Erase and element access.  A position is     *)
(* the distance dist = pos - cbegin().                                     *)
(***************************************************************************)
\* std::destroy_n(new_data.GetAddress(), dist + 1U) of the second handler.
RollbackCountShort(dist) == dist

RollbackCount(dist) == dist + 1

\* if (size_ == dist): EmplaceBack, return data_ + dist
EmplaceAtEnd(m, id, dist, v) ==
    The({
        IF m1.exc THEN m1 ELSE [m1 EXCEPT !.ret = DataPlus(m1, id, dist)]
        : m1 \in {EmplaceBack(Path(m, "end"), id, v)}})

\* if (size_ < Capacity()): T temp(args...); placement new of the last
\* element one slot up; move_backward; data_[dist] = std::move(temp)
EmplaceInPlace(m, id, dist, v) ==
    LET s == Size(m, id) IN
    The({
        IF m0.exc THEN m0
        ELSE The({
            IF m1.exc THEN m1
            ELSE The({
                IF m2.exc THEN m2
                ELSE The({
                    IF m3.exc THEN m3
                    ELSE [IncrementSize(m3, id) EXCEPT !.ret = DataPlus(m3, id, dist)]
                    : m3 \in {AssignValue(m2, DataPlus(m2, id, dist), v)}})
                : m2 \in {MoveBackward(m1, DataPlus(m1, id, dist), s - 1 - dist,
                                       DataPlus(m1, id, s))}})
            : m1 \in {MoveConstruct(m0, DataPlus(m0, id, s), DataPlus(m0, id, s - 1))}})
        : m0 \in {Burn(Path(m, "shift"), "ctor")}})

\* else: new storage of size_ * 2U, the new element at dist, the elements
\* before dist, the elements from dist on, each with its handler
EmplaceRealloc(m, id, dist, v) ==
    LET s == Size(m, id) IN
    The({
        IF a.exc THEN a
        ELSE The({
            IF m1.exc THEN Deallocate(m1, a.reg)
            ELSE The({
                IF m2.exc
                THEN Deallocate(DestroyAt(m2, Ptr(a.reg, dist)), a.reg)
                ELSE The({
                    IF m3.exc
                    THEN Deallocate(DestroyN(m3, Ptr(a.reg, 0), RollbackCount(dist)),
                                    a.reg)
                    ELSE The({
                        [IncrementSize(m5, id) EXCEPT !.ret = DataPlus(m5, id, dist)]
                        : m5 \in {AdoptStorage(DestroyN(m3, GetAddress(m3, id), s),
                                               id, a.reg, s * 2)}})
                    : m3 \in {Reallocate(m2, DataPlus(m2, id, dist), s - dist,
                                         Ptr(a.reg, dist + 1))}})
                : m2 \in {Reallocate(m1, GetAddress(m1, id), dist, Ptr(a.reg, 0))}})
            : m1 \in {PlacementNew(a, Ptr(a.reg, dist), v, TRUE, "ctor")}})
        : a \in {Allocate(Path(m, "realloc"), s * 2)}})

Emplace(m, id, dist, v) ==
    IF Size(m, id) = dist THEN EmplaceAtEnd(m, id, dist, v)
    ELSE IF Size(m, id) < Capacity(m, id) THEN EmplaceInPlace(m, id, dist, v)
    ELSE EmplaceRealloc(m, id, dist, v)

Insert(m, id, dist, v) == Emplace(m, id, dist, v)

(***************************************************************************)
(* The same calls with an argument that refers to an element of the        *)
(* vector itself: v.PushBack(v[i]), v.Insert(v.begin() + dist, v[i]).      *)
(* The argument is the address of slot i of the storage the vector has     *)
(* when the call is made; T(args...) copy-constructs from what that        *)
(* address holds when the construction runs.                               *)
(***************************************************************************)
EmplaceBackRef(m, id, i) ==
    LET s == Size(m, id)
        arg == DataPlus(m, id, i)
    IN
    IF s = Capacity(m, id)
    THEN The({
        IF a.exc THEN a
        ELSE The({
            IF m1.exc THEN Deallocate(m1, a.reg)
            ELSE The({
                IF m2.exc
                THEN Deallocate(DestroyAt(m2, Ptr(a.reg, s)), a.reg)
                ELSE IncrementSize(AdoptStorage(DestroyN(m2, GetAddress(m2, id), s),
                                                id, a.reg, NewCapacity(s)),
                                   id)
                : m2 \in {Reallocate(m1, GetAddress(m1, id), s, Ptr(a.reg, 0))}})
            : m1 \in {CopyConstruct(a, Ptr(a.reg, s), arg)}})
        : a \in {Allocate(Path(m, "grow"), NewCapacity(s))}})
    ELSE The({
        IF m1.exc THEN m1 ELSE IncrementSize(m1, id)
        : m1 \in {CopyConstruct(Path(m, "spare"), DataPlus(m, id, s), arg)}})

PushBackRef(m, id, i) == EmplaceBackRef(m, id, i)

EmplaceAtEndRef(m, id, dist, i) ==
    The({
        IF m1.exc THEN m1 ELSE [m1 EXCEPT !.ret = DataPlus(m1, id, dist)]
        : m1 \in {EmplaceBackRef(Path(m, "end"), id, i)}})

\* The spare-capacity branch without the temporary: the argument is read by
\* the final assignment.
EmplaceInPlaceRefNoTemp(m, id, dist, i) ==
    LET s == Size(m, id)
        arg == DataPlus(m, id, i)
    IN
    The({
        IF m1.exc THEN m1
        ELSE The({
            IF m2.exc THEN m2
            ELSE The({
                IF m3.exc THEN m3
                ELSE [IncrementSize(m3, id) EXCEPT !.ret = DataPlus(m3, id, dist)]
                : m3 \in {CopyAssign(m2, DataPlus(m2, id, dist), arg)}})
            : m2 \in {MoveBackward(m1, DataPlus(m1, id, dist), s - 1 - dist,
                                   DataPlus(m1, id, s))}})
        : m1 \in {MoveConstruct(Path(m, "shift"), DataPlus(m, id, s),
                                DataPlus(m, id, s - 1))}})

\* T temp(args...) copies the argument before any element is shifted.
EmplaceInPlaceRef(m, id, dist, i) ==
    LET s == Size(m, id)
        arg == DataPlus(m, id, i)
    IN
    The({
        IF m0.exc THEN m0
        ELSE The({
            IF m1.exc THEN m1
            ELSE The({
                IF m2.exc THEN m2
                ELSE The({
                    IF m3.exc THEN m3
                    ELSE [IncrementSize(m3, id) EXCEPT !.ret = DataPlus(m3, id, dist)]
                    : m3 \in {AssignValue(m2, DataPlus(m2, id, dist), Val(m, arg))}})
                : m2 \in {MoveBackward(m1, DataPlus(m1, id, dist), s - 1 - dist,
                                       DataPlus(m1, id, s))}})
            : m1 \in {MoveConstruct(m0, DataPlus(m0, id, s), DataPlus(m0, id, s - 1))}})
        : m0 \in {Burn(ReadCheck(Path(m, "shift"), arg), "ctor")}})

EmplaceReallocRef(m, id, dist, i) ==
    LET s == Size(m, id)
        arg == DataPlus(m, id, i)
    IN
    The({
        IF a.exc THEN a
        ELSE The({
            IF m1.exc THEN Deallocate(m1, a.reg)
            ELSE The({
                IF m2.exc
                THEN Deallocate(DestroyAt(m2, Ptr(a.reg, dist)), a.reg)
                ELSE The({
                    IF m3.exc
                    THEN Deallocate(DestroyN(m3, Ptr(a.reg, 0), RollbackCount(dist)),
                                    a.reg)
                    ELSE The({
                        [IncrementSize(m5, id) EXCEPT !.ret = DataPlus(m5, id, dist)]
                        : m5 \in {AdoptStorage(DestroyN(m3, GetAddress(m3, id), s),
                                               id, a.reg, s * 2)}})
                    : m3 \in {Reallocate(m2, DataPlus(m2, id, dist), s - dist,
                                         Ptr(a.reg, dist + 1))}})
                : m2 \in {Reallocate(m1, GetAddress(m1, id), dist, Ptr(a.reg, 0))}})
            : m1 \in {CopyConstruct(a, Ptr(a.reg, dist), arg)}})
        : a \in {Allocate(Path(m, "realloc"), s * 2)}})

EmplaceRef(m, id, dist, i) ==
    IF Size(m, id) = dist THEN EmplaceAtEndRef(m, id, dist, i)
    ELSE IF Size(m, id) < Capacity(m, id) THEN EmplaceInPlaceRef(m, id, dist, i)
    ELSE EmplaceReallocRef(m, id, dist, i)

InsertRef(m, id, dist, i) == EmplaceRef(m, id, dist, i)

EraseDropsLast(m, id, dist) ==
    The({[m1 EXCEPT !.ret = DataPlus(m1, id, dist)]
         : m1 \in {Resize(Path(m, "last"), id, Size(m, id) - 1)}})

Erase(m, id, dist) ==
    LET s == Size(m, id) IN
    IF dist + 1 = s
    THEN The({[m1 EXCEPT !.ret = DataPlus(m1, id, dist)]
              : m1 \in {Resize(Path(m, "last"), id, dist)}})
    ELSE The({
        IF m1.exc THEN m1
        ELSE The({
            [m2 EXCEPT !.vec[id].size = s - 1, !.ret = DataPlus(m2, id, dist)]
            : m2 \in {DestroyAt(m1, DataPlus(m1, id, s - 1))}})
        : m1 \in {MoveRange(Path(m, "shift"), DataPlus(m, id, dist + 1),
                            s - (dist + 1), DataPlus(m, id, dist))}})

\* v[index] = value : operator[] and the element's assignment.
SetAt(m, id, index, v) ==
    AssignValue(IF index < Size(m, id) THEN m ELSE Fault(m, "assert"),
                DataPlus(m, id, index), v)

(***************************************************************************)
(* The state.                                                              *)
(*   T      the traits of the element type the vector is instantiated     *)
(*          with: is_nothrow_move_constructible, is_copy_constructible    *)
(*   heap   the blocks                                                     *)
(*   vec    the vectors; vec[Tmp] is the local vector of a call            *)
(*   fault  the memory faults that happened so far                         *)
(*   stack  per vector: the values pushed and not popped, while only       *)
(*          PushBack and PopBack were called on it since it was            *)
(*          constructed empty and every call returned                      *)
(***************************************************************************)
Types == [nothrowMove : BOOLEAN, copyable : BOOLEAN]

NoStack == [valid |-> FALSE, seq |-> <<>>]

\* The cells [0, size) of a vector, and its elements' values.
CellsOf(h, v) ==
    IF v.buf = Null THEN <<>>
    ELSE [k \in 1..Min2(v.size, Len(h[v.buf].cells)) |-> h[v.buf].cells[k]]

Cells(id) == CellsOf(heap, vec[id])

\* The cells [size, capacity) of a vector.
SpareOf(h, v) ==
    IF v.buf = Null THEN <<>>
    ELSE [k \in 1..(Len(h[v.buf].cells) - v.size) |-> h[v.buf].cells[v.size + k]]

Spare(id) == SpareOf(heap, vec[id])

Start(f) ==
    [heap |-> heap, vec |-> vec, fault |-> fault, fuse |-> f, exc |-> FALSE,
     steps |-> 0, threwAt |-> "none", path |-> <<>>, ret |-> NullPtr,
     ndestroy |-> 0, reg |-> Null, raw |-> raw, log |-> <<>>]

StackAfter(op, id, val, m) ==
    [j \in Ids |->
        IF j # id THEN (IF op \in {"MoveCtor", "MoveAssignment"} THEN NoStack ELSE stack[j])
        ELSE IF m.exc THEN NoStack
        ELSE IF op = "DefaultCtor" THEN [valid |-> TRUE, seq |-> <<>>]
        ELSE IF op = "PushBack" /\ stack[j].valid
             THEN [valid |-> TRUE, seq |-> Append(stack[j].seq, val)]
        ELSE IF op = "PopBack" /\ stack[j].valid
             THEN [valid |-> TRUE,
                   seq |-> SubSeq(stack[j].seq, 1, Len(stack[j].seq) - 1)]
        ELSE NoStack]

\* Addresses carry no meaning beyond identity, so a state is kept up to a
\* renaming of the blocks: the block of vector 1 is named 1, the block of
\* vector 2 the next one.  A state with a block that no vector owns is kept
\* as it is.
Rename(m, b) ==
    IF b = Null THEN Null
    ELSE IF b = m.vec[1].buf THEN 1
    ELSE IF b = m.vec[2].buf THEN (IF m.vec[1].buf = Null THEN 1 ELSE 2)
    ELSE b

Renamed(m) ==
    IF \E b \in Blocks : m.heap[b].alloc /\ b # m.vec[1].buf /\ b # m.vec[2].buf
    THEN m
    ELSE [m EXCEPT
            !.heap = [b \in Blocks |->
                        IF m.vec[1].buf # Null /\ b = Rename(m, m.vec[1].buf)
                        THEN m.heap[m.vec[1].buf]
                        ELSE IF m.vec[2].buf # Null /\ b = Rename(m, m.vec[2].buf)
                        THEN m.heap[m.vec[2].buf]
                        ELSE [alloc |-> FALSE, cells |-> <<>>]],
            !.vec[1].buf = Rename(m, m.vec[1].buf),
            !.vec[2].buf = Rename(m, m.vec[2].buf)]

\* The state a call leaves.
Commit(op, id, arg, val, m) ==
    \E r \in {Renamed(m)} :
        /\ heap' = r.heap
        /\ vec' = r.vec
        /\ fault' = r.fault
        /\ stack' = StackAfter(op, id, val, r)
        /\ UNCHANGED <<T, raw>>

\* The public operations by name.
Run(m, op, id, arg, val) ==
    CASE op = "DefaultCtor" -> DefaultCtor(m, id)
      [] op = "SizedCtor" -> SizedCtor(m, id, arg)
      [] op = "CopyCtor" -> CopyCtor(m, id, arg)
      [] op = "MoveCtor" -> MoveCtor(m, id, arg)
      [] op = "Destructor" -> Destructor(m, id)
      [] op = "CopyAssignment" -> CopyAssignment(m, id, arg)
      [] op = "MoveAssignment" -> MoveAssignment(m, id, arg)
      [] op = "Reserve" -> Reserve(m, id, arg)
      [] op = "Resize" -> Resize(m, id, arg)
      [] op = "PushBack" -> PushBack(m, id, val)
      [] op = "PopBack" -> PopBack(m, id)
      [] op = "Insert" -> Insert(m, id, arg, val)
      [] op = "Erase" -> Erase(m, id, arg)
      [] op = "SetAt" -> SetAt(m, id, arg, val)

\* How a call started with fuse f ends: with no step throwing (f = 0), or
\* with its f-th throwing-capable step throwing.
Ends(op, id, arg, val, f, m) ==
    /\ f = 0 \/ m.exc
    /\ Commit(op, id, arg, val, m)

(***************************************************************************)
(* The calls.  Each is made within its precondition; bound is the largest  *)
(* capacity the model lets a vector reach.                                 *)
(***************************************************************************)
\* The memory is intact: no fault happened, every allocated block is the
\* storage of a vector, and no cell at or beyond its size is constructed.
\* The model follows the program while its memory is intact; once it is not,
\* only destructors run.
Intact ==
    /\ fault = {}
    /\ \A b \in Blocks :
          heap[b].alloc =>
             \E id \in Ids :
                /\ vec[id].buf = b
                /\ \A k \in 1..Len(heap[b].cells) :
                      k > vec[id].size => heap[b].cells[k] = Uninit

Exists(id) == vec[id].exists /\ Intact
Absent(id) == ~vec[id].exists /\ Intact

GrowthFits(id, bound) ==
    \/ vec[id].size < vec[id].cap
    \/ NewCapacity(vec[id].size) <= bound

\* In each call f ranges over 0 and the throwing-capable steps the call can
\* have: one per allocation and one per construction or assignment of T.
CallDefaultCtor(id) ==
    /\ Absent(id)
    /\ \E m \in {DefaultCtor(Start(0), id)} : Ends("DefaultCtor", id, 0, 0, 0, m)

CallSizedCtor(id, bound) ==
    /\ Absent(id)
    /\ \E n \in 0..bound : \E f \in 0..(n + 1) :
          \E m \in {SizedCtor(Start(f), id, n)} : Ends("SizedCtor", id, n, 0, f, m)

CallCopyCtor(id) ==
    /\ Absent(id)
    /\ T.copyable
    /\ \E other \in Ids \ {id} :
          /\ vec[other].exists
          /\ \E f \in 0..(vec[other].size + 1) :
                \E m \in {CopyCtor(Start(f), id, other)} :
                    Ends("CopyCtor", id, other, 0, f, m)

CallMoveCtor(id) ==
    /\ Absent(id)
    /\ \E other \in Ids \ {id} :
          /\ vec[other].exists
          /\ \E m \in {MoveCtor(Start(0), id, other)} :
                Ends("MoveCtor", id, other, 0, 0, m)

CallDestructor(id) ==
    /\ vec[id].exists
    /\ \E m \in {Destructor(Start(0), id)} : Ends("Destructor", id, 0, 0, 0, m)

CallCopyAssignment(id) ==
    /\ Exists(id)
    /\ T.copyable
    /\ \E rhs \in Ids :
          /\ vec[rhs].exists
          /\ \E f \in 0..(vec[rhs].size + 1) :
                \E m \in {CopyAssignment(Start(f), id, rhs)} :
                    Ends("CopyAssignment", id, rhs, 0, f, m)

CallMoveAssignment(id) ==
    /\ Exists(id)
    /\ \E rhs \in Ids :
          /\ vec[rhs].exists
          /\ \E m \in {MoveAssignment(Start(0), id, rhs)} :
                Ends("MoveAssignment", id, rhs, 0, 0, m)

CallReserve(id, bound) ==
    /\ Exists(id)
    /\ \E n \in 0..bound : \E f \in 0..(vec[id].size + 1) :
          \E m \in {Reserve(Start(f), id, n)} : Ends("Reserve", id, n, 0, f, m)

CallResize(id, bound) ==
    /\ Exists(id)
    /\ \E n \in 0..bound : \E f \in 0..(n + 1) :
          \E m \in {Resize(Start(f), id, n)} : Ends("Resize", id, n, 0, f, m)

CallPushBack(id, bound, vals) ==
    /\ Exists(id)
    /\ GrowthFits(id, bound)
    /\ \E v \in vals : \E f \in 0..(vec[id].size + 2) :
          \E m \in {PushBack(Start(f), id, v)} : Ends("PushBack", id, 0, v, f, m)

CallPopBack(id) ==
    /\ Exists(id)
    /\ vec[id].size > 0
    /\ \E m \in {PopBack(Start(0), id)} : Ends("PopBack", id, 0, 0, 0, m)

CallInsert(id, bound, vals) ==
    /\ Exists(id)
    /\ GrowthFits(id, bound)
    /\ \E dist \in 0..vec[id].size, v \in vals : \E f \in 0..(vec[id].size + 2) :
          \E m \in {Insert(Start(f), id, dist, v)} :
              Ends("Insert", id, dist, v, f, m)

CallErase(id) ==
    /\ Exists(id)
    /\ \E dist \in 0..(vec[id].size - 1) : \E f \in 0..vec[id].size :
          \E m \in {Erase(Start(f), id, dist)} : Ends("Erase", id, dist, 0, f, m)

CallSetAt(id, vals) ==
    /\ Exists(id)
    /\ \E index \in 0..(vec[id].size - 1), v \in vals : \E f \in 0..1 :
          \E m \in {SetAt(Start(f), id, index, v)} :
              Ends("SetAt", id, index, v, f, m)

Init ==
    /\ T \in Types
    /\ heap = [b \in Blocks |-> [alloc |-> FALSE, cells |-> <<>>]]
    /\ vec = [id \in Ids \cup {Tmp} |-> NoVector]
    /\ fault = {}
    /\ stack = [id \in Ids |-> NoStack]
    /\ raw = [id \in Ids |-> NoRaw]

(***************************************************************************)
(* Spec: one vector and every operation on a single vector.                *)
(***************************************************************************)
Next ==
    \/ CallDefaultCtor(1)
    \/ CallSizedCtor(1, MaxCap)
    \/ CallDestructor(1)
    \/ CallReserve(1, MaxCap)
    \/ CallResize(1, MaxCap)
    \/ CallPushBack(1, MaxCap, Values)
    \/ CallPopBack(1)
    \/ CallInsert(1, MaxCap, Values)
    \/ CallErase(1)
    \/ CallSetAt(1, Values)

Spec == Init /\ [][Next]_vars

(***************************************************************************)
(* SpecPair: two vectors, with the operations that take two vectors.       *)
(***************************************************************************)
NextPair ==
    \E id \in Ids :
        \/ CallDefaultCtor(id)
        \/ CallSizedCtor(id, PairMaxCap)
        \/ CallCopyCtor(id)
        \/ CallMoveCtor(id)
        \/ CallDestructor(id)
        \/ CallCopyAssignment(id)
        \/ CallMoveAssignment(id)
        \/ CallReserve(id, PairMaxCap)
        \/ CallResize(id, PairMaxCap)
        \/ CallPushBack(id, PairMaxCap, PairValues)
        \/ CallPopBack(id)
        \/ CallInsert(id, PairMaxCap, PairValues)
        \/ CallErase(id)
        \/ CallSetAt(id, PairValues)

SpecPair == Init /\ [][NextPair]_vars

(***************************************************************************)
(* SpecRaw: two RawMemory objects that belong to no vector.                *)
(***************************************************************************)
CommitRaw(f, m) ==
    /\ f = 0 \/ m.exc
    /\ heap' = m.heap
    /\ raw' = m.raw
    /\ fault' = m.fault
    /\ UNCHANGED <<T, vec, stack>>

CallRawCtor(id) ==
    /\ fault = {}
    /\ ~raw[id].exists
    /\ \E capacity \in 0..MaxCap : \E f \in 0..1 :
          \E m \in {RawCtor(Start(f), id, capacity)} : CommitRaw(f, m)

CallRawMoveCtor(id) ==
    /\ fault = {}
    /\ ~raw[id].exists
    /\ \E other \in Ids \ {id} :
          /\ raw[other].exists
          /\ \E m \in {RawMoveCtor(Start(0), id, other)} : CommitRaw(0, m)

CallRawMoveAssignment(id) ==
    /\ fault = {}
    /\ raw[id].exists
    /\ \E rhs \in Ids : \E falls \in BOOLEAN :
          /\ raw[rhs].exists
          /\ \E m \in {RawMoveAssignment(Start(0), id, rhs, falls)} : CommitRaw(0, m)

CallRawDtor(id) ==
    /\ raw[id].exists
    /\ \E m \in {RawDtor(Start(0), id)} : CommitRaw(0, m)

CallRawSwap(id) ==
    /\ fault = {}
    /\ raw[id].exists
    /\ \E other \in Ids :
          /\ raw[other].exists
          /\ \E m \in {RawMemorySwap(Start(0), id, other)} : CommitRaw(0, m)

NextRaw ==
    \E id \in Ids :
        \/ CallRawCtor(id)
        \/ CallRawMoveCtor(id)
        \/ CallRawMoveAssignment(id)
        \/ CallRawDtor(id)
        \/ CallRawSwap(id)

SpecRaw == Init /\ [][NextRaw]_vars

(***************************************************************************)
(* Observers of the state, used by the properties below.                   *)
(***************************************************************************)
\* The values of the elements of a vector, in index order.
Elems(h, v) ==
    LET cs == CellsOf(h, v) IN
    [k \in 1..Len(cs) |-> IF cs[k] = Uninit THEN Uninit ELSE cs[k][1]]
ElemsOf(m, id) == Elems(m.heap, m.vec[id])
Elements(id) == Elems(heap, vec[id])

\* What a caller can observe of a vector: size, capacity, elements.
ViewOf(m, id) == <<m.vec[id].size, m.vec[id].cap, ElemsOf(m, id)>>
View(id) == <<vec[id].size, vec[id].cap, Elements(id)>>

\* The invariant of a vector: size <= capacity, the storage has capacity
\* cells, the cells [0, size) are constructed, the cells [size, capacity) are
\* not.
WellFormed(h, v) ==
    v.exists =>
       /\ 0 <= v.size
       /\ v.size <= v.cap
       /\ IF v.buf = Null THEN v.cap = 0
          ELSE /\ h[v.buf].alloc
               /\ Len(h[v.buf].cells) = v.cap
               /\ \A k \in 1..v.cap : (h[v.buf].cells[k] # Uninit) <=> (k <= v.size)

\* No block is allocated beyond the storage of the existing vectors.
NoStrayBlock(h, vs) ==
    \A b \in Blocks : h[b].alloc => \E id \in Ids : vs[id].exists /\ vs[id].buf = b

(***************************************************************************)
(* C1.  Between public operations, whatever calls were made and however    *)
(* they ended (returning or throwing), every vector has                    *)
(* 0 <= Size() <= Capacity(), exactly the slots [0, Size()) hold live      *)
(* elements and the slots [Size(), Capacity()) are uninitialized.          *)
(* The code breaks it: an Emplace into spare capacity whose shifting       *)
(* assignment throws leaves the element it built at slot Size() behind.    *)
(***************************************************************************)
C1_VectorInvariant == \A id \in Ids : WellFormed(heap, vec[id])

(***************************************************************************)
(* C5.  Every block that was allocated is released exactly once and every  *)
(* element that was constructed is destroyed exactly once: no fault (leak, *)
(* double destruction, double release) ever happens, and once every vector *)
(* is destroyed no block is left allocated.                                *)
(* The code breaks it: the element left at slot Size() by the throwing     *)
(* Emplace is never destroyed.                                             *)
(***************************************************************************)
C5_ReleasedExactlyOnce ==
    /\ fault = {}
    /\ (\A id \in Ids : ~vec[id].exists) => \A b \in Blocks : ~heap[b].alloc

(***************************************************************************)
(* C2.  From an empty vector, after any sequence of PushBack and PopBack   *)
(* calls that returned (PopBack never on an empty vector), Size() is the   *)
(* number of pushes minus the number of pops and the elements are the      *)
(* pushed values not popped yet, in the order they were pushed.            *)
(* stack[id] is that sequence of values, kept beside the vector.           *)
(***************************************************************************)
C2_PushPopIsStack ==
    \A id \in Ids :
        (vec[id].exists /\ stack[id].valid) =>
            /\ vec[id].size = Len(stack[id].seq)
            /\ Elements(id) = stack[id].seq

\* Three values pushed and not popped, 1 then 2 then 1; the capacity 4 was
\* reached by doubling from 1 to 2 to 4.
C2_Witness ==
    /\ vec[1].exists
    /\ stack[1].valid
    /\ stack[1].seq = <<1, 2, 1>>
    /\ vec[1].cap = 4

(***************************************************************************)
(* C3.  EmplaceBack / PushBack that does not throw: on a full vector       *)
(* (Size() = Capacity() = s) it leaves Capacity() = max(1, 2s) >= s + 1;   *)
(* with Size() < Capacity() it leaves the capacity and the storage as they *)
(* are; either way Size() = s + 1, the previous elements keep index and    *)
(* value, and the new element is at index s.                               *)
(***************************************************************************)
C3_EmplaceBackGrowth ==
    \A id \in Ids : \A v \in Values :
        Exists(id) =>
            LET s == vec[id].size
                c == vec[id].cap
                m == PushBack(Start(0), id, v)
            IN  /\ ~m.exc
                /\ m.vec[id].size = s + 1
                /\ ElemsOf(m, id) = Append(Elements(id), v)
                /\ WellFormed(m.heap, m.vec[id])
                /\ (s = c) => /\ m.vec[id].cap = (IF 2 * s > 1 THEN 2 * s ELSE 1)
                              /\ m.vec[id].cap >= s + 1
                /\ (s < c) => /\ m.vec[id].cap = c
                              /\ m.vec[id].buf = vec[id].buf

\* A full vector of two elements from which PushBack doubles the capacity,
\* and one with spare capacity, in the same state space.
C3_Witness ==
    /\ Exists(1)
    /\ vec[1].size = 2
    /\ vec[1].cap = 2
    /\ Elements(1) = <<1, 2>>
    /\ LET m == PushBack(Start(0), 1, 2)
       IN  ~m.exc /\ m.vec[1].cap = 4 /\ ElemsOf(m, 1) = <<1, 2, 2>>

(***************************************************************************)
(* C4.  Strong exception safety of the growth path of EmplaceBack.         *)
(* As claimed: whenever a growth-triggering EmplaceBack throws (the        *)
(* allocation, the construction of the new element, or the relocation of   *)
(* an element), Size(), Capacity() and the value of every element are as   *)
(* before the call, the new storage is released and the new element        *)
(* destroyed.                                                              *)
(***************************************************************************)
GrowthFailureLeaves(id, v, f, sameValues) ==
    LET m == EmplaceBack(Start(f), id, v) IN
    m.exc =>
        /\ m.vec[id] = vec[id]
        /\ m.fault = {}
        /\ NoStrayBlock(m.heap, m.vec)
        /\ WellFormed(m.heap, m.vec[id])
        /\ sameValues => ElemsOf(m, id) = Elements(id)

C4_Original ==
    \A id \in Ids : \A v \in Values :
        (Exists(id) /\ vec[id].size = vec[id].cap) =>
            \A f \in 1..(vec[id].size + 2) : GrowthFailureLeaves(id, v, f, TRUE)

(***************************************************************************)
(* C4 as amended.  The values are as before the call when the element type *)
(* is copy-constructible or its move constructor cannot throw.  For a      *)
(* move-only element type whose move constructor throws, relocation moves: *)
(* Size(), Capacity() and the storage are as before, the new storage is    *)
(* released and the new element destroyed, but the elements relocated      *)
(* before the throw are left moved-from.                                   *)
(***************************************************************************)
C4_GrowthFailure ==
    \A id \in Ids : \A v \in Values :
        (Exists(id) /\ vec[id].size = vec[id].cap) =>
            \A f \in 1..(vec[id].size + 2) :
                GrowthFailureLeaves(id, v, f, T.nothrowMove \/ T.copyable)

\* The relocation of the second of two elements throws, the first one having
\* been copied already.
C4_Witness ==
    /\ Exists(1)
    /\ ~T.nothrowMove /\ T.copyable
    /\ vec[1].size = 2
    /\ vec[1].cap = 2
    /\ Elements(1) = <<2, 1>>
    /\ LET m == EmplaceBack(Start(4), 1, 1)
       IN  m.exc /\ m.threwAt = "copy" /\ ViewOf(m, 1) = View(1)

(***************************************************************************)
(* C6.  Insert / Emplace at position p (0 <= p <= Size()) with value v     *)
(* that does not throw turns e[0..n) into e[0..p), v, e[p..n): Size()      *)
(* grows by one, and the returned position is slot p of the storage the    *)
(* vector then has, which holds v.  It is so at the end (EmplaceBack),     *)
(* with spare capacity (shift in place) and on a full vector               *)
(* (reallocation).                                                         *)
(***************************************************************************)
InsertAt(seq, p, v) == SubSeq(seq, 1, p) \o <<v>> \o SubSeq(seq, p + 1, Len(seq))
RemoveAt(seq, p) == SubSeq(seq, 1, p) \o SubSeq(seq, p + 2, Len(seq))

InsertPath(id, p) ==
    IF p = vec[id].size THEN "end"
    ELSE IF vec[id].size < vec[id].cap THEN "shift" ELSE "realloc"

C6_InsertPlacesValue ==
    \A id \in Ids : \A v \in Values :
        Exists(id) =>
            \A p \in 0..vec[id].size :
                LET m == Insert(Start(0), id, p, v) IN
                /\ ~m.exc
                /\ m.path[1] = InsertPath(id, p)
                /\ m.vec[id].size = vec[id].size + 1
                /\ ElemsOf(m, id) = InsertAt(Elements(id), p, v)
                /\ WellFormed(m.heap, m.vec[id])
                /\ m.ret = Ptr(m.vec[id].buf, p)
                /\ Val(m, m.ret) = v

\* {1,1,2} with capacity 4: Insert(1, 2) shifts two elements in place.
C6_Witness ==
    /\ Exists(1)
    /\ Elements(1) = <<1, 1, 2>>
    /\ vec[1].cap = 4
    /\ LET m == Insert(Start(0), 1, 1, 2)
       IN  m.path = <<"shift">> /\ ElemsOf(m, 1) = <<1, 2, 1, 2>>

(***************************************************************************)
(* C7.  Rollback of the reallocating path of Insert / Emplace.             *)
(* As claimed: on a full vector, at a position p before the end, when the  *)
(* relocation of the elements before p or of the elements from p on        *)
(* throws, every element built in the new storage is destroyed, the new    *)
(* storage is released, and the vector is as before: same Size(), same     *)
(* Capacity(), same element values in the same order.                      *)
(***************************************************************************)
InsertFailureLeaves(id, p, v, f, sameValues) ==
    LET m == Emplace(Start(f), id, p, v) IN
    (m.exc /\ m.threwAt \in {"copy", "move"}) =>
        /\ m.path = <<"realloc">>
        /\ m.vec[id] = vec[id]
        /\ m.fault = {}
        /\ NoStrayBlock(m.heap, m.vec)
        /\ WellFormed(m.heap, m.vec[id])
        /\ sameValues => ElemsOf(m, id) = Elements(id)

C7_Original ==
    \A id \in Ids : \A v \in Values :
        (Exists(id) /\ vec[id].size = vec[id].cap) =>
            \A p \in 0..(vec[id].size - 1) : \A f \in 1..(vec[id].size + 2) :
                InsertFailureLeaves(id, p, v, f, TRUE)

(***************************************************************************)
(* C7 as amended.  The element values are as before when the element type  *)
(* is copy-constructible or its move constructor cannot throw.  For a      *)
(* move-only element type whose move constructor throws, everything built  *)
(* in the new storage is destroyed, the new storage is released and        *)
(* Size(), Capacity() and the storage are as before, but the elements      *)
(* relocated before the throw are left moved-from.                         *)
(***************************************************************************)
C7_InsertRollback ==
    \A id \in Ids : \A v \in Values :
        (Exists(id) /\ vec[id].size = vec[id].cap) =>
            \A p \in 0..(vec[id].size - 1) : \A f \in 1..(vec[id].size + 2) :
                InsertFailureLeaves(id, p, v, f, T.nothrowMove \/ T.copyable)

\* Full {1,2}, Insert(1, v): the element before p is copied, then the copy of
\* the element at p throws; the new element and the copy are destroyed.
C7_Witness ==
    /\ Exists(1)
    /\ ~T.nothrowMove /\ T.copyable
    /\ Elements(1) = <<1, 2>>
    /\ vec[1].cap = 2
    /\ LET m == Emplace(Start(4), 1, 1, 2)
       IN  m.exc /\ m.threwAt = "copy" /\ m.ndestroy = 2 /\ ViewOf(m, 1) = View(1)

(***************************************************************************)
(* C8.  Erase at the position p of a live element (0 <= p < Size()) that   *)
(* does not throw turns e[0..n) into e[0..p), e[p+1..n): Size() decreases  *)
(* by one, Capacity() and the storage are unchanged, exactly one element   *)
(* is destroyed, and the returned position is slot p: the element that     *)
(* followed the erased one, or the end when p was the last index.          *)
(***************************************************************************)
C8_EraseRemovesOne ==
    \A id \in Ids :
        Exists(id) =>
            \A p \in 0..(vec[id].size - 1) :
                LET m == Erase(Start(0), id, p) IN
                /\ ~m.exc
                /\ m.vec[id].size = vec[id].size - 1
                /\ m.vec[id].cap = vec[id].cap
                /\ m.vec[id].buf = vec[id].buf
                /\ ElemsOf(m, id) = RemoveAt(Elements(id), p)
                /\ WellFormed(m.heap, m.vec[id])
                /\ m.ndestroy = 1
                /\ m.ret = Ptr(m.vec[id].buf, p)
                /\ IF p = m.vec[id].size THEN m.ret = DataPlus(m, id, Size(m, id))
                   ELSE Val(m, m.ret) = Elements(id)[p + 2]

\* {1,2,1,2}: Erase(1) shifts two elements down.
C8_Witness ==
    /\ Exists(1)
    /\ Elements(1) = <<1, 2, 1, 2>>
    /\ LET m == Erase(Start(0), 1, 1)
       IN  m.path = <<"shift">> /\ ElemsOf(m, 1) = <<1, 1, 2>> /\ m.ndestroy = 1

(***************************************************************************)
(* C9.  Insert / Erase round trip: in every state of a vector, full or     *)
(* not, for every position p in [0, Size()] and value v, Insert(p, v)      *)
(* followed by Erase(p) gives back the element sequence and the Size().    *)
(***************************************************************************)
C9_InsertEraseRoundTrip ==
    \A id \in Ids : \A v \in Values :
        Exists(id) =>
            \A p \in 0..vec[id].size :
                LET m1 == Insert(Start(0), id, p, v)
                    m2 == Erase(m1, id, p)
                IN  /\ ~m1.exc /\ ~m2.exc
                    /\ ElemsOf(m1, id)[p + 1] = v
                    /\ m2.vec[id].size = vec[id].size
                    /\ ElemsOf(m2, id) = Elements(id)

\* Full {2,1}: Insert(0, 1) reallocates to capacity 4, Erase(0) shifts back.
C9_Witness ==
    /\ Exists(1)
    /\ Elements(1) = <<2, 1>>
    /\ vec[1].cap = 2
    /\ LET m1 == Insert(Start(0), 1, 0, 1)
           m2 == Erase(m1, 1, 0)
       IN  /\ m1.path = <<"realloc">>
           /\ ElemsOf(m1, 1) = <<1, 2, 1>>
           /\ m2.vec[1].cap = 4
           /\ ElemsOf(m2, 1) = <<2, 1>>

(***************************************************************************)
(* C10.  Deep-copy independence.  A vector B copy-constructed from A has   *)
(* B.Size() = B.Capacity() = A.Size(), the element values of A in the      *)
(* same order and storage of its own; a vector B copy-assigned from A has  *)
(* the element values of A and storage of its own.  A is unchanged by the  *)
(* copy.  Afterwards a mutating operation on one of the two, whether it    *)
(* returns or throws, leaves Size(), Capacity() and the element values of  *)
(* the other unchanged.                                                    *)
(***************************************************************************)
Again(m, f) ==
    [m EXCEPT !.fuse = f, !.exc = FALSE, !.steps = 0, !.threwAt = "none",
              !.path = <<>>, !.ret = NullPtr, !.ndestroy = 0]

\* The mutating calls a vector of machine m admits: <<operation, arg, val>>.
Mutations(m, id) ==
    LET s == Size(m, id) IN
    {<<"PushBack", 0, v>> : v \in Values}
      \cup {<<"Insert", p, v>> : p \in 0..s, v \in Values}
      \cup {<<"Erase", p, 0>> : p \in 0..(s - 1)}
      \cup {<<"PopBack", 0, 0>> : k \in 1..Min2(s, 1)}
      \cup {<<"Resize", n, 0>> : n \in 0..(s + 1)}
      \cup {<<"Reserve", n, 0>> : n \in 0..(Capacity(m, id) + 1)}
      \cup {<<"SetAt", i, v>> : i \in 0..(s - 1), v \in Values}

OwnStorage(m, a, b) ==
    m.vec[a].buf = m.vec[b].buf => (m.vec[a].buf = Null /\ m.vec[b].buf = Null)

\* No mutating call on x, returning or throwing at any of its steps, changes
\* what is observed of y.
Untouched(c, x, y) ==
    LET seen == ViewOf(c, y) IN
    \A d \in Mutations(c, x) :
        LET m0 == Run(Again(c, 0), d[1], x, d[2], d[3]) IN
        /\ ViewOf(m0, y) = seen
        /\ \A f \in 1..m0.steps :
              ViewOf(Run(Again(c, f), d[1], x, d[2], d[3]), y) = seen

Independent(c, a, b) == Untouched(c, a, b) /\ Untouched(c, b, a)

C10_DeepCopyIndependence ==
    \A a \in Ids : \A b \in Ids \ {a} :
        (Exists(a) /\ T.copyable) =>
            LET c == IF vec[b].exists THEN CopyAssignment(Start(0), b, a)
                     ELSE CopyCtor(Start(0), b, a)
            IN  /\ ~c.exc
                /\ c.fault = {}
                /\ ~vec[b].exists =>
                      /\ c.vec[b].size = vec[a].size
                      /\ c.vec[b].cap = vec[a].size
                /\ ElemsOf(c, b) = Elements(a)
                /\ ViewOf(c, a) = View(a)
                /\ c.vec[a] = vec[a]
                /\ OwnStorage(c, a, b)
                /\ WellFormed(c.heap, c.vec[b])
                /\ Independent(c, a, b)

\* B copy-constructed from A = {0,1} with capacity 2; B[0] = 2 and
\* A.PushBack(1) each leave the other vector as it was.
C10_Witness ==
    /\ Exists(1)
    /\ ~vec[2].exists
    /\ T.copyable
    /\ Elements(1) = <<0, 1>>
    /\ LET c == CopyCtor(Start(0), 2, 1)
           mb == SetAt(Again(c, 0), 2, 0, 2)
           ma == PushBack(Again(c, 0), 1, 1)
       IN  /\ ViewOf(c, 2) = <<2, 2, <<0, 1>>>>
           /\ ElemsOf(mb, 2) = <<2, 1>> /\ ElemsOf(mb, 1) = <<0, 1>>
           /\ ElemsOf(ma, 1) = <<0, 1, 1>> /\ ViewOf(ma, 2) = ViewOf(c, 2)

(***************************************************************************)
(* C11.  A move leaves the source empty.  As claimed: after                *)
(* move-constructing a new vector from S, and after move-assigning S into  *)
(* a distinct vector D, whatever D held, S has Size() = 0 and the          *)
(* destination holds the elements S had, in the same order.                *)
(***************************************************************************)
MovedInto(m, d, s) ==
    /\ ~m.exc
    /\ m.fault = {}
    /\ m.steps = 0
    /\ m.vec[d].size = vec[s].size
    /\ m.vec[d].cap = vec[s].cap
    /\ ElemsOf(m, d) = Elements(s)
    /\ WellFormed(m.heap, m.vec[d])
    /\ WellFormed(m.heap, m.vec[s])

C11_Original ==
    \A s \in Ids : \A d \in Ids \ {s} :
        Exists(s) =>
            LET m == IF vec[d].exists THEN MoveAssignment(Start(0), d, s)
                     ELSE MoveCtor(Start(0), d, s)
            IN  MovedInto(m, d, s) /\ m.vec[s].size = 0

(***************************************************************************)
(* C11 as amended.  After move-constructing a new vector from S, S has     *)
(* Size() = 0 and Capacity() = 0 and the new vector holds the elements S   *)
(* had, in the same order.  After move-assigning S into a distinct vector  *)
(* D, D holds the elements S had, in the same order, and S holds the       *)
(* elements D had: S has Size() = 0 exactly when D was empty.  Neither     *)
(* allocates, constructs, destroys or throws.                              *)
(***************************************************************************)
C11_MoveTransfers ==
    \A s \in Ids : \A d \in Ids \ {s} :
        Exists(s) =>
            IF vec[d].exists
            THEN LET m == MoveAssignment(Start(0), d, s) IN
                 /\ MovedInto(m, d, s)
                 /\ m.ndestroy = 0
                 /\ ViewOf(m, s) = View(d)
                 /\ (m.vec[s].size = 0) <=> (vec[d].size = 0)
            ELSE LET m == MoveCtor(Start(0), d, s) IN
                 /\ MovedInto(m, d, s)
                 /\ m.ndestroy = 0
                 /\ m.vec[s].size = 0
                 /\ m.vec[s].cap = 0

\* S = {0,1}, D = {1}: after D = std::move(S), D is {0,1} and S is {1}.
C11_Witness ==
    /\ Exists(1) /\ Exists(2)
    /\ Elements(1) = <<0, 1>>
    /\ Elements(2) = <<1>>
    /\ LET m == MoveAssignment(Start(0), 2, 1)
       IN  ElemsOf(m, 2) = <<0, 1>> /\ ElemsOf(m, 1) = <<1>>

(***************************************************************************)
(* C12.  Copy-assignment D = R that does not throw.  When D and R are the  *)
(* same vector nothing changes.  Otherwise D has the Size() and the        *)
(* elements of R, R is unchanged, no element is destroyed twice, the       *)
(* elements D held beyond index R.Size() are destroyed once, and           *)
(* Capacity() of D is unchanged when R.Size() <= Capacity() of D (the      *)
(* storage is reused) and equals R.Size() when R.Size() exceeded it (copy  *)
(* and swap, which destroys every element D held).                         *)
(***************************************************************************)
C12_CopyAssignment ==
    \A d \in Ids : \A r \in Ids :
        (Exists(d) /\ vec[r].exists /\ T.copyable) =>
            LET m == CopyAssignment(Start(0), d, r) IN
            /\ ~m.exc
            /\ m.fault = {}
            /\ IF d = r
               THEN /\ m.path = <<"self">>
                    /\ m.vec = vec /\ m.heap = heap
                    /\ m.steps = 0 /\ m.ndestroy = 0
               ELSE /\ m.vec[d].size = vec[r].size
                    /\ ElemsOf(m, d) = Elements(r)
                    /\ m.vec[r] = vec[r]
                    /\ ViewOf(m, r) = View(r)
                    /\ WellFormed(m.heap, m.vec[d])
                    /\ NoStrayBlock(m.heap, m.vec)
                    /\ IF vec[r].size <= vec[d].cap
                       THEN /\ m.path = <<"in_place">>
                            /\ m.vec[d].cap = vec[d].cap
                            /\ m.vec[d].buf = vec[d].buf
                            /\ m.ndestroy = IF vec[d].size > vec[r].size
                                            THEN vec[d].size - vec[r].size ELSE 0
                       ELSE /\ m.path = <<"copy_swap">>
                            /\ m.vec[d].cap = vec[r].size
                            /\ m.ndestroy = vec[d].size

\* D = {1,1}, R = {0}: the storage of D is reused, D becomes {0} with
\* capacity 2 and one element is destroyed.
C12_Witness ==
    /\ Exists(1) /\ Exists(2)
    /\ T.copyable
    /\ Elements(1) = <<1, 1>>
    /\ Elements(2) = <<0>>
    /\ LET m == CopyAssignment(Start(0), 1, 2)
       IN  /\ m.path = <<"in_place">>
           /\ ViewOf(m, 1) = <<1, 2, <<0>>>>
           /\ m.ndestroy = 1

\* The capacities asked of Reserve: below, at and above every capacity.
ReserveArgs == 0..(MaxCap + 1)

(***************************************************************************)
(* C13.  Reserve(c) that does not throw.  When c <= Capacity() nothing     *)
(* changes: no allocation, the same storage.  Otherwise Capacity() is      *)
(* exactly c, Size() and every element's value and index are unchanged,    *)
(* each of the Size() old elements is destroyed once and the old block is  *)
(* released.                                                               *)
(***************************************************************************)
C13_Reserve ==
    \A id \in Ids : \A c \in ReserveArgs :
        Exists(id) =>
            LET m == Reserve(Start(0), id, c) IN
            /\ ~m.exc
            /\ m.fault = {}
            /\ IF c <= vec[id].cap
               THEN /\ m.path = <<"noop">>
                    /\ m.steps = 0 /\ m.ndestroy = 0
                    /\ m.vec = vec /\ m.heap = heap
               ELSE /\ m.path = <<"realloc">>
                    /\ m.vec[id].cap = c
                    /\ m.vec[id].size = vec[id].size
                    /\ ElemsOf(m, id) = Elements(id)
                    /\ m.ndestroy = vec[id].size
                    /\ m.vec[id].buf # vec[id].buf
                    /\ vec[id].buf # Null => ~m.heap[vec[id].buf].alloc
                    /\ WellFormed(m.heap, m.vec[id])
                    /\ NoStrayBlock(m.heap, m.vec)

\* {1,2} with capacity 2: Reserve(3) gives capacity 3, not 4.
C13_Witness ==
    /\ Exists(1)
    /\ Elements(1) = <<1, 2>>
    /\ vec[1].cap = 2
    /\ LET m == Reserve(Start(0), 1, 3)
       IN  ViewOf(m, 1) = <<2, 3, <<1, 2>>>> /\ m.ndestroy = 2

\* k value-initialized elements.
Defaults(k) == [i \in 1..k |-> DefaultValue]

(***************************************************************************)
(* C14.  Resize(n).  With n <= Size() the trailing Size() - n elements     *)
(* are destroyed, Size() is n, the capacity and the storage stay.  With    *)
(* n > Size() and no exception the old elements keep their indices, the    *)
(* indices [oldSize, n) hold default values, Size() is n and Capacity()    *)
(* is max(oldCapacity, n).  When the default construction of a new         *)
(* element throws, every element this call constructed is destroyed, and   *)
(* Size() and the old elements are as before the call.                     *)
(***************************************************************************)
C14_Resize ==
    \A id \in Ids : \A n \in 0..MaxCap : \A f \in 0..(n + 1) :
        Exists(id) =>
            LET m == Resize(Start(f), id, n)
                r == Reserve(Start(0), id, n)
                s == vec[id].size
            IN
            /\ m.fault = {}
            /\ IF n <= s
               THEN /\ ~m.exc
                    /\ m.path = <<"shrink">>
                    /\ m.vec[id].size = n
                    /\ m.vec[id].cap = vec[id].cap
                    /\ m.vec[id].buf = vec[id].buf
                    /\ ElemsOf(m, id) = SubSeq(Elements(id), 1, n)
                    /\ m.ndestroy = s - n
                    /\ WellFormed(m.heap, m.vec[id])
               ELSE IF ~m.exc
               THEN /\ m.vec[id].size = n
                    /\ m.vec[id].cap = (IF vec[id].cap >= n THEN vec[id].cap ELSE n)
                    /\ ElemsOf(m, id) = Elements(id) \o Defaults(n - s)
                    /\ WellFormed(m.heap, m.vec[id])
                    /\ NoStrayBlock(m.heap, m.vec)
               ELSE m.threwAt = "default" =>
                    /\ m.vec[id].size = s
                    /\ ElemsOf(m, id) = Elements(id)
                    /\ m.ndestroy = r.ndestroy + (m.steps - r.steps)
                    /\ WellFormed(m.heap, m.vec[id])
                    /\ NoStrayBlock(m.heap, m.vec)

\* Growing {1} to three elements: the second default construction throws
\* after the first was built, and the array is {1} again.
C14_Witness ==
    /\ Exists(1)
    /\ Elements(1) = <<1>>
    /\ \E f \in 0..4 :
          LET m == Resize(Start(f), 1, 3)
              r == Reserve(Start(0), 1, 3)
          IN  /\ m.exc /\ m.threwAt = "default"
              /\ m.steps = r.steps + 1
              /\ m.ndestroy = r.ndestroy + 1
              /\ ElemsOf(m, 1) = <<1>>

\* A RawMemory object that owns its block, or none, and shares it with no
\* other.
Owns(id) ==
    /\ raw[id].exists
    /\ IF raw[id].buffer = Null THEN raw[id].capacity = 0
       ELSE /\ heap[raw[id].buffer].alloc
            /\ Len(heap[raw[id].buffer].cells) = raw[id].capacity
            /\ \A j \in Ids \ {id} : raw[j].exists => raw[j].buffer # raw[id].buffer

\* Both objects destroyed, in the order given.
BothDestroyed(m, first, second) == RawDtor(RawDtor(m, first), second)

(***************************************************************************)
(* C15.  RawMemory move assignment D = move(S), D and S two objects that   *)
(* each own their block.  The claim: afterwards D holds S's block and      *)
(* capacity, S holds the null address and capacity 0, D's earlier block    *)
(* is released; and when D and S are then destroyed, in either order,      *)
(* every block is released and none is released twice.                     *)
(* The code breaks it: std::swap(buffer_, rhs.buffer_) hands the address   *)
(* of D's released block to S, and S's destructor releases it again.       *)
(***************************************************************************)
C15_RawMoveAssignment ==
    \A d, s \in Ids :
        (d # s /\ fault = {} /\ Owns(d) /\ Owns(s)) =>
            LET m == RawMoveAssignment(Start(0), d, s, FALSE) IN
            /\ m.fault = {}
            /\ m.raw[d].buffer = raw[s].buffer
            /\ m.raw[d].capacity = raw[s].capacity
            /\ m.raw[s].buffer = Null
            /\ m.raw[s].capacity = 0
            /\ raw[d].buffer # Null => ~m.heap[raw[d].buffer].alloc
            /\ \A e \in {BothDestroyed(m, d, s), BothDestroyed(m, s, d)} :
                  /\ e.fault = {}
                  /\ \A b \in Blocks : ~e.heap[b].alloc

(***************************************************************************)
(* C16.  PopBack on an empty vector.  The claim: the call stops at a       *)
(* failing assertion before it destroys any slot or changes the size, so   *)
(* Size() stays 0 and never wraps around.                                  *)
(* The code breaks it: the only assertion on the way is that of            *)
(* RawMemory::operator+, offset <= capacity_, which holds for offset 0;    *)
(* the call then destroys the slot before the storage and decrements the   *)
(* unsigned size_ from 0.                                                  *)
(***************************************************************************)
C16_PopBackEmptyAsserts ==
    \A id \in Ids :
        (Exists(id) /\ vec[id].size = 0) =>
            LET m == PopBack(Start(0), id) IN
            /\ "assert" \in m.fault
            /\ "wild" \notin m.fault
            /\ m.ndestroy = 0
            /\ m.vec[id].size = 0

\* The events of a growth from block b0 to block b1 of a vector of s
\* elements, the new element going to slot dist.
GrowthOrder(b0, b1, s, dist) ==
    <<<<"allocate", b1>>, <<"construct", b1, dist>>>>
      \o [k \in 1..dist |-> <<"construct", b1, k - 1>>]
      \o [k \in 1..(s - dist) |-> <<"construct", b1, dist + k>>]
      \o [k \in 1..s |-> <<"destroy", b0, k - 1>>]
      \o <<<<"adopt", b1>>>>
      \o (IF b0 = Null THEN <<>> ELSE <<<<"release", b0>>>>)
      \o <<<<"size", s + 1>>>>

\* The events of a call that built something: allocations and constructions.
Built(log) ==
    Cardinality({k \in 1..Len(log) : log[k][1] \in {"allocate", "construct"}})

\* A call follows the order: all of it when it returns; when it throws, the
\* first steps of it and then the undoing of what it built in the new block.
FollowsOrder(m, order, b1) ==
    LET c == Built(m.log) IN
    IF ~m.exc THEN m.log = order
    ELSE /\ c < Len(order)
         /\ SubSeq(m.log, 1, c) = SubSeq(order, 1, c)
         /\ \A k \in (c + 1)..Len(m.log) :
               /\ m.log[k][1] \in {"destroy", "release"}
               /\ m.log[k][2] = b1


(***************************************************************************)
(* C17.  The order of the growth path.  A PushBack / EmplaceBack into a    *)
(* full vector and an Insert / Emplace into a full vector do, in this      *)
(* order: allocate the new storage, construct the new element at its       *)
(* target slot of the new storage, relocate the elements before the        *)
(* position and then those from the position on, destroy the old           *)
(* elements, adopt the new storage (releasing the old block), increment    *)
(* the size.  When a step throws, the steps done so far are the first      *)
(* steps of that order, followed only by the destruction of what was       *)
(* built in the new storage and its release: no old element is destroyed   *)
(* and the storage is not replaced.  (The order does not depend on the     *)
(* value inserted, so one value is tried.)                                 *)
(***************************************************************************)
C17_GrowthOrder ==
    \A id \in Ids :
        (Exists(id) /\ vec[id].size = vec[id].cap) =>
          \A v \in PairValues : \A dist \in 0..vec[id].size :
            LET s == vec[id].size
                b0 == vec[id].buf
                m0 == Insert(Start(0), id, dist, v)
                b1 == m0.vec[id].buf
                order == GrowthOrder(b0, b1, s, dist)
            IN
            /\ ~m0.exc
            /\ b1 # b0
            /\ m0.log = order
            /\ dist = s => PushBack(Start(0), id, v).log = order
            /\ \A f \in 1..(s + 2) :
                  /\ FollowsOrder(Insert(Start(f), id, dist, v), order, b1)
                  /\ dist = s => FollowsOrder(PushBack(Start(f), id, v), order, b1)

\* Insert at position 1 of the full vector {1, 2}.
C17_Witness ==
    /\ Exists(1)
    /\ Elements(1) = <<1, 2>>
    /\ vec[1].cap = 2
    /\ LET m == Insert(Start(0), 1, 1, 1)
           b0 == vec[1].buf
           b1 == m.vec[1].buf
       IN  /\ ElemsOf(m, 1) = <<1, 1, 2>>
           /\ m.log = << <<"allocate", b1>>, <<"construct", b1, 1>>,
                         <<"construct", b1, 0>>, <<"construct", b1, 2>>,
                         <<"destroy", b0, 0>>, <<"destroy", b0, 1>>,
                         <<"adopt", b1>>, <<"release", b0>>, <<"size", 3>> >>
           /\ ~T.nothrowMove
           /\ Insert(Start(4), 1, 1, 1).log =
                     << <<"allocate", b1>>, <<"construct", b1, 1>>,
                        <<"construct", b1, 0>>, <<"destroy", b1, 0>>,
                        <<"destroy", b1, 1>>, <<"release", b1>> >>

(***************************************************************************)
(* C18.  The relocation policy and the rollback of Reserve.  Relocation    *)
(* move-constructs the elements exactly when the move constructor of T     *)
(* cannot throw or T is not copy-constructible: the sources are then       *)
(* moved-from; otherwise it copy-constructs them and the sources keep      *)
(* their values.  For a copy-constructible T whose relocation can throw,   *)
(* a Reserve whose k-th copy throws destroys the k-1 elements built in     *)
(* the new storage, releases the new storage, and leaves the vector and    *)
(* every element as they were.                                             *)
(***************************************************************************)
C18_RelocationPolicy ==
    \A id \in Ids : \A c \in 1..(MaxCap + 1) :
        (Exists(id) /\ c > vec[id].cap) =>
            LET s == vec[id].size
                a == Allocate(Start(0), c)
                r == Reallocate(a, GetAddress(a, id), s, Ptr(a.reg, 0))
                moves == T.nothrowMove \/ ~T.copyable
            IN
            /\ ~r.exc /\ r.fault = {}
            /\ Elems(r.heap, [vec[id] EXCEPT !.buf = a.reg]) = Elements(id)
            /\ Elems(r.heap, vec[id]) =
                  (IF moves THEN [k \in 1..s |-> MovedFrom] ELSE Elements(id))
            /\ r.steps = 1 + (IF T.nothrowMove THEN 0 ELSE s)
            /\ (T.copyable /\ ~T.nothrowMove) =>
                  \A k \in 1..s :
                      LET m == Reserve(Start(k + 1), id, c) IN
                      /\ m.exc /\ m.threwAt = "copy"
                      /\ m.fault = {}
                      /\ m.ndestroy = k - 1
                      /\ m.log[Len(m.log)] = <<"release", a.reg>>
                      /\ m.heap = heap
                      /\ m.vec = vec

\* Reserve(3) on {1, 2} of a copyable type with a throwing move: the second
\* copy throws, the first copy is destroyed, the vector is as before.
C18_Witness ==
    /\ Exists(1)
    /\ T.copyable /\ ~T.nothrowMove
    /\ Elements(1) = <<1, 2>>
    /\ vec[1].cap = 2
    /\ LET m == Reserve(Start(3), 1, 3)
       IN  /\ m.exc /\ m.threwAt = "copy" /\ m.ndestroy = 1
           /\ ViewOf(m, 1) = <<2, 2, <<1, 2>>>>
           /\ m.heap = heap

(***************************************************************************)
(* C19.  Arguments that refer to an element of the vector itself.  For a   *)
(* copy-constructible T, v.PushBack(v[i]) appends, and                     *)
(* v.Insert(v.begin() + dist, v[i]) inserts at dist, the value v[i] had    *)
(* before the call, the other elements keeping their order -- on the       *)
(* growth path, on the append into spare capacity and on the in-place      *)
(* shift.                                                                  *)
(***************************************************************************)
C19_SelfAliasing ==
    \A id \in Ids : \A i \in 0..(MaxCap - 1) : \A dist \in 0..MaxCap :
        (Exists(id) /\ T.copyable /\ i < vec[id].size /\ dist <= vec[id].size) =>
            LET x == Elements(id)[i + 1]
                m == InsertRef(Start(0), id, dist, i)
            IN
            /\ ~m.exc /\ m.fault = {}
            /\ m.path[1] = InsertPath(id, dist)
            /\ ElemsOf(m, id) = InsertAt(Elements(id), dist, x)
            /\ WellFormed(m.heap, m.vec[id])
            /\ dist = vec[id].size =>
                  LET p == PushBackRef(Start(0), id, i) IN
                  /\ ~p.exc /\ p.fault = {}
                  /\ ElemsOf(p, id) = Append(Elements(id), x)
                  /\ WellFormed(p.heap, p.vec[id])

\* {1, 2} with a spare slot: Insert(begin, v[1]) shifts both elements and
\* still inserts 2; PushBack(v[1]) fills the spare slot with 2; the vector
\* {1, 2, 2} is then full and Insert(begin + 1, v[0]) grows and inserts 1.
C19_Witness ==
    /\ Exists(1)
    /\ T.copyable
    /\ Elements(1) = <<1, 2>>
    /\ vec[1].cap = 3
    /\ LET m == InsertRef(Start(0), 1, 0, 1)
           p == PushBackRef(Start(0), 1, 1)
           g == InsertRef(Again(p, 0), 1, 1, 0)
       IN  /\ m.path = <<"shift">> /\ ElemsOf(m, 1) = <<2, 1, 2>>
           /\ p.path = <<"spare">> /\ ElemsOf(p, 1) = <<1, 2, 2>>
           /\ g.path = <<"realloc">> /\ ElemsOf(g, 1) = <<1, 1, 2, 2>>

(***************************************************************************)
(* C20.  A copy assignment D = R that reuses D's storage                   *)
(* (R.Size() <= D.Capacity()) and throws.  D keeps its Size(), its         *)
(* Capacity() and its storage; every slot below Size() is live and holds   *)
(* either its old value or the value R has at that index; no slot at or    *)
(* beyond Size() is left constructed; R is unchanged.  Precisely: when an  *)
(* assignment throws, the slots assigned so far hold R's values and the    *)
(* others their old ones; when a construction beyond Size() throws, all    *)
(* slots below Size() hold R's values and the elements built beyond it     *)
(* are destroyed.                                                          *)
(***************************************************************************)
C20_InPlaceFailure ==
    \A d, r \in Ids : \A f \in 1..PairMaxCap :
        (d # r /\ Exists(d) /\ vec[r].exists /\ T.copyable
            /\ vec[r].size <= vec[d].cap /\ f <= vec[r].size) =>
            LET m == CopyAssignment(Start(f), d, r)
                s == vec[d].size
                old == Elements(d)
                src == Elements(r)
                new == ElemsOf(m, d)
            IN
            /\ m.exc /\ m.fault = {}
            /\ m.path = <<"in_place">>
            /\ m.vec[d] = vec[d]
            /\ WellFormed(m.heap, m.vec[d])
            /\ NoStrayBlock(m.heap, m.vec)
            /\ Len(new) = s
            /\ \A k \in 1..s :
                  new[k] = old[k] \/ (k <= Len(src) /\ new[k] = src[k])
            /\ IF m.threwAt = "assign"
               THEN /\ m.ndestroy = 0
                    /\ \A k \in 1..s :
                          new[k] = (IF k <= m.steps THEN src[k] ELSE old[k])
               ELSE /\ m.threwAt = "copy"
                    /\ m.ndestroy = m.steps - s
                    /\ new = SubSeq(src, 1, s)
            /\ m.vec[r] = vec[r]
            /\ ElemsOf(m, r) = Elements(r)

\* D = {1, 1}, R = {0, 0}: the second assignment throws and D is {0, 1}.
C20_Witness ==
    /\ Exists(1) /\ Exists(2)
    /\ T.copyable
    /\ Elements(1) = <<1, 1>>
    /\ Elements(2) = <<0, 0>>
    /\ LET m == CopyAssignment(Start(2), 1, 2)
       IN  /\ m.exc /\ m.threwAt = "assign"
           /\ m.path = <<"in_place">>
           /\ ViewOf(m, 1) = <<2, 2, <<0, 1>>>>
           /\ ViewOf(m, 2) = View(2)

====
